---- MODULE Spec2Model ----
(***************************************************************************)
(* State-machine model of keras_nlp's BertClassifier task head             *)
(* (keras_nlp/models/bert/bert_classifier.py) and of the operations the    *)
(* classifier test-suite (keras_nlp/models/f_net/f_net_classifier_test.py) *)
(* performs on a classifier: construction, compile, fit, predict,          *)
(* get_config / reconstruction, save / load, and the presets table.        *)
(*                                                                         *)
(* Conventions.  Dropout rates are held in tenths (0.1 is 1, 1.0 is 10).   *)
(* Learning rates are held in units of 1e-5 (5e-5 is 5).  Python's None    *)
(* is the string "None".  Objects shared by reference (backbones, the      *)
(* nested dictionaries of the presets tables) live in heaps and are named  *)
(* by their index.                                                         *)
(***************************************************************************)
EXTENDS Integers, Sequences, FiniteSets, TLC

VARIABLES
    backbones,          \* heap of backbone instances: id -> [config, weights]
    classifiers,        \* the classifier instances built so far, in order
    saved,              \* artifacts written by save()
    last,               \* the last call made and what it returned or raised
    backbone_presets,   \* module-level dict: preset name -> heap address
    classifier_presets, \* module-level dict: preset name -> heap address
    heap,               \* nested preset dictionaries: address -> dict
    tables              \* the tables earlier accesses to `presets` returned

vars == <<backbones, classifiers, saved, last,
          backbone_presets, classifier_presets, heap, tables>>

modelVars == <<backbones, classifiers, saved, last>>
presetVars == <<backbone_presets, classifier_presets, heap, tables>>

----------------------------------------------------------------------------
(* Bounds of the model.                                                    *)

MaxModels == 2      \* classifier instances alive at once
MaxClasses == 2     \* largest num_classes a caller passes
MaxBatch == 2       \* largest batch handed to predict
MaxTables == 2      \* tables returned by `presets` that callers still hold
MaxSaved == 1       \* artifacts written by save()

(* Program constants.                                                      *)

DefaultNumClasses == 2      \* __init__(..., num_classes=2, ...)
DefaultDropout == 1         \* __init__(..., dropout=0.1, ...), in tenths

None == "None"

(* Values callers pass, valid and invalid: class counts below 1 and rates  *)
(* outside [0, 1) among them.                                              *)
NumClassesArgs == (0 - 1) .. MaxClasses
DropoutArgs == {0 - 1, DefaultDropout, 10, 11}
ValidDropouts == {0, DefaultDropout, 9}
PreprocessorArgs == {None, "preprocessor"}
Weights == {1, 2}           \* abstract values of a randomly drawn weight tensor
JitArgs == {"False", "True"}

(* The raw batch of the tests; callers pass its first B samples.           *)
raw_batch ==
    <<"the quick brown fox.", "the slow brown fox.",
      "the smelly brown fox.", "the old brown fox.">>

----------------------------------------------------------------------------
(* Small helpers.                                                          *)

RECURSIVE SumSeq(_)
SumSeq(s) == IF s = <<>> THEN 0 ELSE Head(s) + SumSeq(Tail(s))

----------------------------------------------------------------------------
(* Tensors and batches.  A raw batch is a sequence of strings; a           *)
(* preprocessed batch holds one token-id sequence per sample; a tensor     *)
(* carries its shape; a call that raises yields an error value.            *)

RawBatch(samples) == [kind |-> "raw", samples |-> samples]
PreprocessedBatch(samples) == [kind |-> "preprocessed", samples |-> samples]
Tensor(shape, values) == [kind |-> "tensor", shape |-> shape, values |-> values]
Error(what) == [kind |-> "error", what |-> what]

RawBatches == {RawBatch(SubSeq(raw_batch, 1, B)) : B \in 1 .. MaxBatch}

(* The preprocessor of the tests: tokenizer ids between [CLS] (bos_id=4)   *)
(* and [SEP] (eos_id=5); distinct texts give distinct id sequences.        *)
TokenIds(text) ==
    <<4, CHOOSE n \in 1 .. Len(raw_batch) : raw_batch[n] = text, 5>>

(* preprocessor(x): callable on raw batches only.                          *)
Preprocess(preprocessor, x) ==
    IF preprocessor = None THEN Error("TypeError")
    ELSE IF x.kind # "raw" THEN Error("InvalidArgument")
    ELSE PreprocessedBatch([i \in 1 .. Len(x.samples) |-> TokenIds(x.samples[i])])

PreprocessedBatches == {Preprocess("preprocessor", x) : x \in RawBatches}

----------------------------------------------------------------------------
(* The backbone of the tests (FNetBackbone(vocabulary_size=1000, ...)).    *)

BackboneConfig ==
    [vocabulary_size |-> 1000, num_layers |-> 2, hidden_dim |-> 64,
     intermediate_dim |-> 128, max_sequence_length |-> 128, name |-> "encoder"]

(* backbone.input: the symbolic input of one backbone instance.            *)
BackboneInput(b) == [backbone |-> b, name |-> "input"]

(* backbone(inputs): a dict of named outputs; it accepts preprocessed      *)
(* features only.  The pooled vector of a sample is abstracted to one      *)
(* number that depends on the tokens and on the backbone's weights.        *)
BackboneCall(b, t) ==
    IF t.kind = "error" THEN t
    ELSE IF t.kind # "preprocessed" THEN Error("InvalidArgument")
    ELSE [kind |-> "dict",
          pooled_output |->
              Tensor(<<Len(t.samples), backbones[b].config.hidden_dim>>,
                     [i \in 1 .. Len(t.samples) |->
                         (backbones[b].weights * SumSeq(t.samples[i])) % 7])]

----------------------------------------------------------------------------
(* The layers __init__ creates.                                            *)

(* keras.layers.Dropout(rate): the constructor raises ValueError unless    *)
(* 0 <= rate <= 1.                                                         *)
DropoutAccepts(rate) == 0 <= rate /\ rate <= 10

(* keras.layers.Dense(units): the constructor raises ValueError when       *)
(* units < 0.                                                              *)
DenseAccepts(units) == units >= 0

DropoutLayer(rate) == [op |-> "dropout", rate |-> rate]

(* Mutation: the projection is built with the default class count.         *)
LogitsLayer_DefaultUnits(num_classes) ==
    [op |-> "dense", units |-> DefaultNumClasses,
     kernel_initializer |-> "bert_kernel_initializer", name |-> "logits"]

LogitsLayer(num_classes) ==
    [op |-> "dense", units |-> num_classes,
     kernel_initializer |-> "bert_kernel_initializer", name |-> "logits"]

(* Mutation: dropout is applied to the logits instead of the pooled        *)
(* output.                                                                 *)
Graph_DropoutOnLogits(b, num_classes, dropout) ==
    << [op |-> "backbone", ref |-> b],
       [op |-> "select", key |-> "pooled_output"],
       LogitsLayer(num_classes),
       DropoutLayer(dropout) >>

(* The functional graph, as the sequence of operations between the         *)
(* model's input and its output.                                           *)
Graph(b, num_classes, dropout) ==
    << [op |-> "backbone", ref |-> b],
       [op |-> "select", key |-> "pooled_output"],
       DropoutLayer(dropout),
       LogitsLayer(num_classes) >>

(* The weights of the logits layer: the kernel's shape, and an abstract    *)
(* value standing for the numbers drawn by the initializer or learned.     *)
Kernel(hidden_dim, units, w) == [shape |-> <<hidden_dim, units>>, value |-> w]

(* One layer applied to a value, at inference (training = FALSE: dropout   *)
(* passes its input through).                                              *)
ApplyLayer(layer, t, kernel) ==
    IF t.kind = "error" THEN t
    ELSE CASE layer.op = "backbone" -> BackboneCall(layer.ref, t)
           [] layer.op = "select" ->
                IF t.kind = "dict" THEN t[layer.key] ELSE Error("KeyError")
           [] layer.op = "dropout" -> t
           [] layer.op = "dense" ->
                IF t.kind # "tensor" \/ t.shape[2] # kernel.shape[1]
                       \/ layer.units # kernel.shape[2]
                THEN Error("ValueError")
                ELSE Tensor(<<t.shape[1], layer.units>>,
                            [i \in 1 .. t.shape[1] |->
                                [c \in 1 .. layer.units |->
                                    (kernel.value * t.values[i] * c) % 7]])

RECURSIVE RunLayers(_, _, _)
RunLayers(layers, t, kernel) ==
    IF layers = <<>> THEN t
    ELSE RunLayers(Tail(layers), ApplyLayer(Head(layers), t, kernel), kernel)

(* model(x): the functional graph on already preprocessed features.        *)
Call(m, x) == RunLayers(m.layers, x, m.kernel)

(* model.predict(x): the pipeline preprocesses first when                  *)
(* include_preprocessing is set.                                           *)
PredictOut(m, x) ==
    Call(m, IF m.include_preprocessing THEN Preprocess(m.preprocessor, x) ELSE x)

----------------------------------------------------------------------------
(* Compilation settings.                                                   *)

(* self.compile(loss=SparseCategoricalCrossentropy(from_logits=True),      *)
(*              optimizer=Adam(5e-5), metrics=SparseCategoricalAccuracy(), *)
(*              jit_compile=is_xla_compatible(self))                       *)
DefaultCompile ==
    [is_compiled |-> TRUE,
     loss |-> "SparseCategoricalCrossentropy", from_logits |-> TRUE,
     optimizer |-> "Adam", learning_rate |-> 5,
     metrics |-> "SparseCategoricalAccuracy",
     jit_compile |-> "is_xla_compatible(self)"]

(* A model on which compile() was never called.                            *)
NotCompiled ==
    [is_compiled |-> FALSE, loss |-> None, from_logits |-> FALSE,
     optimizer |-> None, learning_rate |-> 0, metrics |-> None,
     jit_compile |-> None]

(* classifier.compile(loss=..., jit_compile=...) as the tests call it:     *)
(* compile() replaces every setting; what the caller leaves out takes      *)
(* compile()'s own default (optimizer="rmsprop", loss=None, metrics=None). *)
CallerCompile(loss, jit_compile) ==
    [is_compiled |-> TRUE,
     loss |-> loss, from_logits |-> (loss # None),
     optimizer |-> "rmsprop", learning_rate |-> 100,
     metrics |-> None,
     jit_compile |-> jit_compile]

LossArgs == {None, "SparseCategoricalCrossentropy"}

----------------------------------------------------------------------------
(* BertClassifier.__init__                                                 *)

CtorArgs(b, num_classes, dropout, preprocessor) ==
    [backbone |-> b, num_classes |-> num_classes, dropout |-> dropout,
     preprocessor |-> preprocessor]

(* Mutation: the preprocessing flag is set whether or not a preprocessor   *)
(* was given.                                                              *)
NewClassifier_AlwaysPreprocess(bs, b, num_classes, dropout, preprocessor, w) ==
    [inputs |-> BackboneInput(b),
     layers |-> Graph(b, num_classes, dropout),
     include_preprocessing |-> TRUE,
     backbone |-> b,
     preprocessor |-> preprocessor,
     num_classes |-> num_classes,
     dropout |-> dropout,
     kernel |-> Kernel(bs[b].config.hidden_dim, num_classes, w),
     compiled |-> DefaultCompile,
     args |-> CtorArgs(b, num_classes, dropout, preprocessor),
     user_compiled |-> FALSE,
     origin |-> 0]

(* Mutation: the constructor ends without the default compile() call.      *)
NewClassifier_NoCompile(bs, b, num_classes, dropout, preprocessor, w) ==
    [inputs |-> BackboneInput(b),
     layers |-> Graph(b, num_classes, dropout),
     include_preprocessing |-> (preprocessor # None),
     backbone |-> b,
     preprocessor |-> preprocessor,
     num_classes |-> num_classes,
     dropout |-> dropout,
     kernel |-> Kernel(bs[b].config.hidden_dim, num_classes, w),
     compiled |-> NotCompiled,
     args |-> CtorArgs(b, num_classes, dropout, preprocessor),
     user_compiled |-> FALSE,
     origin |-> 0]

(* Mutation: the dropout attribute is assigned from num_classes.           *)
NewClassifier_WrongDropout(bs, b, num_classes, dropout, preprocessor, w) ==
    [inputs |-> BackboneInput(b),
     layers |-> Graph(b, num_classes, dropout),
     include_preprocessing |-> (preprocessor # None),
     backbone |-> b,
     preprocessor |-> preprocessor,
     num_classes |-> num_classes,
     dropout |-> num_classes,
     kernel |-> Kernel(bs[b].config.hidden_dim, num_classes, w),
     compiled |-> DefaultCompile,
     args |-> CtorArgs(b, num_classes, dropout, preprocessor),
     user_compiled |-> FALSE,
     origin |-> 0]

(* The instance __init__ leaves behind when no layer constructor raises.   *)
(* bs is the heap holding backbone b; w is the value the kernel            *)
(* initializer draws for the logits layer.                                 *)
(* args and user_compiled are history fields: the constructor's arguments  *)
(* and whether the caller has called compile() since.                      *)
NewClassifier(bs, b, num_classes, dropout, preprocessor, w) ==
    [inputs |-> BackboneInput(b),
     layers |-> Graph(b, num_classes, dropout),
     include_preprocessing |-> (preprocessor # None),
     backbone |-> b,
     preprocessor |-> preprocessor,
     num_classes |-> num_classes,
     dropout |-> dropout,
     kernel |-> Kernel(bs[b].config.hidden_dim, num_classes, w),
     compiled |-> DefaultCompile,
     args |-> CtorArgs(b, num_classes, dropout, preprocessor),
     user_compiled |-> FALSE,
     origin |-> 0]

Ok == [kind |-> "ok"]

Record(op, model, x, out) == [op |-> op, model |-> model, x |-> x, out |-> out]

(* Mutation: the constructor clones the backbone and composes the head    *)
(* on the clone.                                                           *)
Construct_CopiesBackbone(b, num_classes, dropout, preprocessor, w) ==
    /\ Len(classifiers) < MaxModels
    /\ b \in DOMAIN backbones
    /\ DropoutAccepts(dropout) /\ DenseAccepts(num_classes)
    /\ backbones' = Append(backbones, backbones[b])
    /\ classifiers' =
           Append(classifiers,
                  NewClassifier(backbones', Len(backbones) + 1, num_classes,
                                dropout, preprocessor, w))
    /\ last' = Record("construct", Len(classifiers) + 1,
                      CtorArgs(b, num_classes, dropout, preprocessor), Ok)
    /\ UNCHANGED <<saved, presetVars>>

(* BertClassifier(backbone, num_classes, dropout, preprocessor): the       *)
(* Dropout and Dense constructors run, and may raise, before the instance  *)
(* exists.                                                                 *)
Construct(b, num_classes, dropout, preprocessor, w) ==
    /\ Len(classifiers) < MaxModels
    /\ b \in DOMAIN backbones
    /\ IF ~DropoutAccepts(dropout) \/ ~DenseAccepts(num_classes)
       THEN /\ last' = Record("construct", 0,
                              CtorArgs(b, num_classes, dropout, preprocessor),
                              Error("ValueError"))
            /\ UNCHANGED classifiers
       ELSE /\ classifiers' =
                   Append(classifiers,
                          NewClassifier(backbones, b, num_classes, dropout,
                                        preprocessor, w))
            /\ last' = Record("construct", Len(classifiers) + 1,
                              CtorArgs(b, num_classes, dropout, preprocessor), Ok)
    /\ UNCHANGED <<backbones, saved, presetVars>>

(* classifier.compile(loss=..., jit_compile=...) by the caller.            *)
Compile(i, loss, jit_compile) ==
    /\ i \in DOMAIN classifiers
    /\ classifiers' = [classifiers EXCEPT
                          ![i].compiled = CallerCompile(loss, jit_compile),
                          ![i].user_compiled = TRUE]
    /\ last' = Record("compile", i, [loss |-> loss, jit_compile |-> jit_compile], Ok)
    /\ UNCHANGED <<backbones, saved, presetVars>>

(* What fit(data) answers before it touches the weights: it needs a        *)
(* compiled model with a loss, data the pipeline and the graph accept,     *)
(* and labels below num_classes.                                           *)
FitOutcome(m, x, y) ==
    IF ~m.compiled.is_compiled THEN Error("RuntimeError")
    ELSE IF m.compiled.loss = None THEN Error("ValueError")
    ELSE IF PredictOut(m, x).kind = "error" THEN PredictOut(m, x)
    ELSE IF y >= m.num_classes THEN Error("InvalidArgument")
    ELSE Ok

(* classifier.fit(dataset): one training step.  The step updates the       *)
(* logits layer and the backbone the classifier refers to.                 *)
Fit(i, x, y, w1, w2) ==
    /\ i \in DOMAIN classifiers
    /\ LET m == classifiers[i]
           out == FitOutcome(m, x, y)
       IN  /\ last' = Record("fit", i, [data |-> x, y |-> y], out)
           /\ IF out = Ok
              THEN /\ classifiers' = [classifiers EXCEPT ![i].kernel.value = w1]
                   /\ backbones' = [backbones EXCEPT ![m.backbone].weights = w2]
              ELSE UNCHANGED <<classifiers, backbones>>
    /\ UNCHANGED <<saved, presetVars>>

(* classifier.predict(x)                                                   *)
Predict(i, x) ==
    /\ i \in DOMAIN classifiers
    /\ last' = Record("predict", i, x, PredictOut(classifiers[i], x))
    /\ UNCHANGED <<backbones, classifiers, saved, presetVars>>

----------------------------------------------------------------------------
(* Configuration and reconstruction.                                       *)

(* dict.update, dict unpacking: the right operand wins on a shared key.    *)
Update(base, extra) ==
    [k \in DOMAIN base \cup DOMAIN extra |->
        IF k \in DOMAIN extra THEN extra[k] ELSE base[k]]

(* keras.layers.serialize of a backbone or a preprocessor.                 *)
SerializeBackbone(b) == [class_name |-> "Backbone", config |-> backbones[b].config]
SerializePreprocessor(p) == [class_name |-> p]

(* Task.get_config(): the base task configuration.                         *)
BaseConfig(m) ==
    [backbone |-> SerializeBackbone(m.backbone),
     preprocessor |-> SerializePreprocessor(m.preprocessor),
     name |-> "bert_classifier",
     trainable |-> TRUE]

(* Mutation: get_config() leaves the dropout rate out.                     *)
get_config_NoDropout(m) ==
    Update(BaseConfig(m), [num_classes |-> m.num_classes])

(* Mutation: get_config() leaves the class count out.                      *)
get_config_NoNumClasses(m) ==
    Update(BaseConfig(m), [dropout |-> m.dropout])

(* BertClassifier.get_config()                                             *)
get_config(m) ==
    Update(BaseConfig(m), [num_classes |-> m.num_classes, dropout |-> m.dropout])

(* classifier.get_config(), returned to the caller.                        *)
GetConfig(i) ==
    /\ i \in DOMAIN classifiers
    /\ last' = Record("get_config", i, 0, get_config(classifiers[i]))
    /\ UNCHANGED <<backbones, classifiers, saved, presetVars>>

(* A keyword argument of __init__: the config's value, or the parameter's  *)
(* default when the config has no such key.                                *)
Kwarg(config, key, default) == IF key \in DOMAIN config THEN config[key] ELSE default

(* Task.from_config(config): the backbone and the preprocessor are         *)
(* deserialized, then __init__ runs on the config's keys.  The backbone    *)
(* instance is b, in the heap bs.                                          *)
FromConfig(config, bs, b, w) ==
    NewClassifier(bs, b,
                  Kwarg(config, "num_classes", DefaultNumClasses),
                  Kwarg(config, "dropout", DefaultDropout),
                  config.preprocessor.class_name,
                  w)

(* The backbones heap with one more instance, deserialized from a config;  *)
(* its weights wb are freshly initialized.                                 *)
WithBackbone(config, wb) ==
    Append(backbones, [config |-> config.backbone.config, weights |-> wb])

(* cls.from_config(classifier.get_config())                                *)
Reconstruct(i, w, wb) ==
    /\ i \in DOMAIN classifiers
    /\ Len(classifiers) < MaxModels
    /\ LET config == get_config(classifiers[i])
           b == Len(backbones) + 1
       IN  /\ backbones' = WithBackbone(config, wb)
           /\ classifiers' =
                  Append(classifiers,
                         [FromConfig(config, backbones', b, w) EXCEPT !.origin = i])
           /\ last' = Record("from_config", Len(classifiers) + 1, i, Ok)
    /\ UNCHANGED <<saved, presetVars>>

----------------------------------------------------------------------------
(* Persistence (model.save / keras.models.load_model).                     *)

(* @keras.utils.register_keras_serializable(package="keras_nlp")           *)
RegisteredName == "keras_nlp>BertClassifier"
CustomObjects == {RegisteredName}

SaveFormats == {"tf", "keras_v3"}

(* The batch the round-trip test predicts on, in the form the model takes. *)
FixedInput(m) ==
    LET raw == RawBatch(SubSeq(raw_batch, 1, MaxBatch))
    IN  IF m.include_preprocessing THEN raw ELSE Preprocess("preprocessor", raw)

(* What save() writes: the registered class name, get_config(), the        *)
(* weights and the compile settings.  model_output is a history field:     *)
(* the predictions made on the fixed batch just before saving.             *)
Artifact(m, format) ==
    [format |-> format,
     class_name |-> RegisteredName,
     config |-> get_config(m),
     kernel |-> m.kernel,
     backbone_weights |-> backbones[m.backbone].weights,
     compiled |-> m.compiled,
     user_compiled |-> m.user_compiled,
     model_output |-> PredictOut(m, FixedInput(m))]

(* classifier.save(path, save_format=format)                               *)
Save(i, format) ==
    /\ i \in DOMAIN classifiers
    /\ Len(saved) < MaxSaved
    /\ saved' = Append(saved, Artifact(classifiers[i], format))
    /\ last' = Record("save", i, format, Ok)
    /\ UNCHANGED <<backbones, classifiers, presetVars>>

(* keras.models.load_model(path): the class is looked up by its            *)
(* registered name and rebuilt from the saved config (w is what its        *)
(* initializer draws), then the saved weights are assigned, which needs    *)
(* equal shapes, and the saved compile settings are restored.              *)
Load(s, w) ==
    /\ s \in DOMAIN saved
    /\ Len(classifiers) < MaxModels
    /\ LET art == saved[s]
           bs == WithBackbone(art.config, art.backbone_weights)
           m == FromConfig(art.config, bs, Len(bs), w)
       IN  IF art.class_name \notin CustomObjects \/ m.kernel.shape # art.kernel.shape
           THEN /\ last' = Record("load", 0, s, Error("ValueError"))
                /\ UNCHANGED <<backbones, classifiers>>
           ELSE /\ backbones' = bs
                /\ classifiers' =
                       Append(classifiers,
                              [m EXCEPT !.kernel = art.kernel,
                                        !.compiled = art.compiled,
                                        !.user_compiled = art.user_compiled])
                /\ last' = Record("load", Len(classifiers) + 1, s, Ok)
    /\ UNCHANGED <<saved, presetVars>>

----------------------------------------------------------------------------
(* The presets tables.  A table maps preset names to the addresses of      *)
(* nested dictionaries in `heap`, so that two tables can share a nested    *)
(* dictionary or hold separate copies of it.                               *)

(* The module-level tables as imported from bert_presets.                  *)
InitialHeap ==
    << [description |-> "base", weights_hash |-> 0],
       [description |-> "tiny sst2", weights_hash |-> 0] >>
InitialBackbonePresets == [k \in {"bert_base_en_uncased"} |-> 1]
InitialClassifierPresets == [k \in {"bert_tiny_en_uncased_sst2"} |-> 2]

(* A table with every address replaced by the dictionary it points to.     *)
Deref(h, table) == [k \in DOMAIN table |-> h[table[k]]]

Addresses(table) == {table[k] : k \in DOMAIN table}

(* The keys of a table in a fixed order, for allocation.                   *)
RECURSIVE KeySeq(_)
KeySeq(keys) ==
    IF keys = {} THEN <<>>
    ELSE LET k == CHOOSE x \in keys : TRUE IN <<k>> \o KeySeq(keys \ {k})

(* copy.deepcopy(table): a new table whose nested dictionaries are new     *)
(* objects, allocated after `base` existing addresses.                     *)
DeepCopyTable(table, base) ==
    LET ks == KeySeq(DOMAIN table)
    IN  [k \in DOMAIN table |-> base + (CHOOSE n \in 1 .. Len(ks) : ks[n] = k)]
DeepCopyHeap(h, table) ==
    LET ks == KeySeq(DOMAIN table)
    IN  h \o [n \in 1 .. Len(ks) |-> h[table[ks[n]]]]

(* Mutation: the union is returned without the deep copy, so its nested   *)
(* dictionaries are the module-level ones.                                 *)
presets_ShallowCopy == <<Update(backbone_presets, classifier_presets), heap>>

(* What one access to BertClassifier.presets returns: <<table, heap>>.     *)
presets ==
    LET union == Update(backbone_presets, classifier_presets)
    IN  <<DeepCopyTable(union, Len(heap)), DeepCopyHeap(heap, union)>>

(* table = BertClassifier.presets                                          *)
AccessPresets ==
    /\ Len(tables) < MaxTables
    /\ tables' = Append(tables, [dict |-> presets[1], touched |-> FALSE])
    /\ heap' = presets[2]
    /\ UNCHANGED <<backbone_presets, classifier_presets, modelVars>>

(* table[key] = table[other]: a caller adds or replaces an entry.          *)
SetEntry(t, key, other) ==
    /\ t \in DOMAIN tables
    /\ other \in DOMAIN tables[t].dict
    /\ key # other
    /\ tables' = [tables EXCEPT
                     ![t].dict = Update(@, [k \in {key} |-> tables[t].dict[other]]),
                     ![t].touched = TRUE]
    /\ UNCHANGED <<backbone_presets, classifier_presets, heap, modelVars>>

(* del table[key]                                                          *)
DelEntry(t, key) ==
    /\ t \in DOMAIN tables
    /\ key \in DOMAIN tables[t].dict
    /\ tables' = [tables EXCEPT
                     ![t].dict = [k \in DOMAIN @ \ {key} |-> @[k]],
                     ![t].touched = TRUE]
    /\ UNCHANGED <<backbone_presets, classifier_presets, heap, modelVars>>

(* table[key]["weights_hash"] = v: a caller changes a nested value.        *)
SetNested(t, key, v) ==
    /\ t \in DOMAIN tables
    /\ key \in DOMAIN tables[t].dict
    /\ heap[tables[t].dict[key]].weights_hash # v
    /\ heap' = [heap EXCEPT ![tables[t].dict[key]].weights_hash = v]
    /\ tables' = [tables EXCEPT ![t].touched = TRUE]
    /\ UNCHANGED <<backbone_presets, classifier_presets, modelVars>>

PresetKeys == {"bert_base_en_uncased", "bert_tiny_en_uncased_sst2", "custom"}
HashValues == {0, 1}

----------------------------------------------------------------------------
(* Specifications.                                                         *)

Init ==
    /\ backbones = <<[config |-> BackboneConfig, weights |-> 1]>>
    /\ classifiers = <<>>
    /\ saved = <<>>
    /\ last = Record("none", 0, 0, Ok)
    /\ backbone_presets = InitialBackbonePresets
    /\ classifier_presets = InitialClassifierPresets
    /\ heap = InitialHeap
    /\ tables = <<>>

Inputs == RawBatches \cup PreprocessedBatches

(* Any number of classifiers built on the backbone, from any arguments.    *)
NextBuild ==
    \E b \in DOMAIN backbones, num_classes \in NumClassesArgs,
       dropout \in DropoutArgs, preprocessor \in PreprocessorArgs, w \in Weights :
        Construct(b, num_classes, dropout, preprocessor, w)

(* One classifier built from valid arguments, then predictions.            *)
NextShape ==
    \/ \E num_classes \in 1 .. MaxClasses, dropout \in ValidDropouts,
          preprocessor \in PreprocessorArgs, w \in Weights :
           /\ classifiers = <<>>
           /\ Construct(1, num_classes, dropout, preprocessor, w)
    \/ \E i \in DOMAIN classifiers, x \in Inputs : Predict(i, x)

(* Several classifiers on one backbone, with and without a preprocessor,   *)
(* and predictions.                                                        *)
NextInfer ==
    \/ \E num_classes \in 1 .. MaxClasses, preprocessor \in PreprocessorArgs,
          w \in Weights :
           Construct(1, num_classes, DefaultDropout, preprocessor, w)
    \/ \E i \in DOMAIN classifiers, x \in Inputs : Predict(i, x)

(* One classifier and every operation a caller performs on it.             *)
NextTrain ==
    \/ \E num_classes \in 0 .. MaxClasses, dropout \in ValidDropouts,
          preprocessor \in PreprocessorArgs, w \in Weights :
           /\ classifiers = <<>>
           /\ Construct(1, num_classes, dropout, preprocessor, w)
    \/ \E i \in DOMAIN classifiers :
        \/ \E loss \in LossArgs, jit_compile \in JitArgs : Compile(i, loss, jit_compile)
        \/ \E x \in Inputs, y \in 0 .. MaxClasses - 1, w1 \in Weights, w2 \in Weights :
               Fit(i, x, y, w1, w2)
        \/ \E x \in Inputs : Predict(i, x)
        \/ GetConfig(i)

(* One classifier, trained any number of times, and the classifiers        *)
(* reconstructed from its config or loaded from what it saved.             *)
NextConfig ==
    \/ \E num_classes \in 1 .. MaxClasses, dropout \in ValidDropouts,
          preprocessor \in PreprocessorArgs, w \in Weights :
           /\ classifiers = <<>>
           /\ Construct(1, num_classes, dropout, preprocessor, w)
    \/ \E w \in Weights :
           /\ classifiers # <<>>
           /\ Fit(1, FixedInput(classifiers[1]), 0, w, w)
    \/ \E i \in DOMAIN classifiers, w \in Weights, wb \in Weights : Reconstruct(i, w, wb)
    \/ \E i \in DOMAIN classifiers, format \in SaveFormats : Save(i, format)
    \/ \E s \in DOMAIN saved, w \in Weights : Load(s, w)

NextPresets ==
    \/ AccessPresets
    \/ \E t \in DOMAIN tables, other \in PresetKeys : SetEntry(t, "custom", other)
    \/ \E t \in DOMAIN tables, key \in PresetKeys : DelEntry(t, key)
    \/ \E t \in DOMAIN tables, key \in PresetKeys, v \in HashValues :
           SetNested(t, key, v)

SpecBuild == Init /\ [][NextBuild]_vars
SpecShape == Init /\ [][NextShape]_vars
SpecInfer == Init /\ [][NextInfer]_vars
SpecTrain == Init /\ [][NextTrain]_vars
SpecConfig == Init /\ [][NextConfig]_vars
SpecPresets == Init /\ [][NextPresets]_vars

----------------------------------------------------------------------------
(* Properties.                                                             *)

(* Whether x is of the kind classifier m takes: raw text when it has a     *)
(* preprocessor, preprocessed features when it has none.                   *)
TakesInput(m, x) == (x.kind = "raw") <=> (m.preprocessor # None)

(* The position of the first layer of graph `layers` with operation op,    *)
(* 0 when there is none.                                                   *)
LayerIndex(layers, op) ==
    IF \E n \in DOMAIN layers : layers[n].op = op
    THEN CHOOSE n \in DOMAIN layers :
             /\ layers[n].op = op
             /\ \A k \in 1 .. n - 1 : layers[k].op # op
    ELSE 0

(* C1: predict on a batch of B samples, of the kind the classifier takes,  *)
(* returns a tensor of shape (B, num_classes): B rows of num_classes       *)
(* logits, for every valid num_classes, dropout and B.                     *)
C1_OutputShape ==
    (last.op = "predict" /\ TakesInput(classifiers[last.model], last.x)) =>
        LET m == classifiers[last.model]
            B == Len(last.x.samples)
        IN  /\ last.out.kind = "tensor"
            /\ last.out.shape = <<B, m.num_classes>>
            /\ last.out.shape[2] = m.args.num_classes
            /\ Len(last.out.values) = B
            /\ \A n \in 1 .. B : Len(last.out.values[n]) = m.args.num_classes

C1_Witness ==
    /\ last.op = "predict"
    /\ last.x.kind = "raw"
    /\ classifiers[last.model].args.num_classes = 1
    /\ classifiers[last.model].args.dropout = 9
    /\ last.out.kind = "tensor"
    /\ last.out.shape = <<2, 1>>

C8_NoInvalidInstance ==
    \A i \in DOMAIN classifiers :
        /\ classifiers[i].num_classes >= 1
        /\ 0 <= classifiers[i].dropout
        /\ classifiers[i].dropout < 10

(* C10: a construction leaves the backbones heap as it was (no copy, no    *)
(* change), leaves every earlier classifier's backbone, preprocessor,      *)
(* num_classes, dropout and include_preprocessing as they were, and the    *)
(* classifier it adds refers to the very backbone it was given.            *)
C10_BackboneShared ==
    [][ /\ backbones' = backbones
        /\ \A i \in DOMAIN classifiers :
              /\ i \in DOMAIN classifiers'
              /\ classifiers'[i].backbone = classifiers[i].backbone
              /\ classifiers'[i].preprocessor = classifiers[i].preprocessor
              /\ classifiers'[i].num_classes = classifiers[i].num_classes
              /\ classifiers'[i].dropout = classifiers[i].dropout
              /\ classifiers'[i].include_preprocessing =
                     classifiers[i].include_preprocessing
        /\ \A i \in DOMAIN classifiers' :
              /\ classifiers'[i].backbone = classifiers'[i].args.backbone
              /\ classifiers'[i].backbone \in DOMAIN backbones ]_vars

C10_Witness ==
    /\ Len(classifiers) = 2
    /\ classifiers[1].backbone = classifiers[2].backbone
    /\ classifiers[1].preprocessor # None
    /\ classifiers[2].preprocessor = None
    /\ classifiers[1].num_classes # classifiers[2].num_classes
    /\ classifiers[1].dropout # classifiers[2].dropout

(* The classifiers without a preprocessor built on the same backbone as    *)
(* classifier i.                                                           *)
PlainTwins(i) ==
    {j \in DOMAIN classifiers :
        /\ classifiers[j].preprocessor = None
        /\ classifiers[j].backbone = classifiers[i].backbone}

(* C5, as stated: include_preprocessing is set exactly when a              *)
(* preprocessor was given, and predict on a raw batch by a classifier with *)
(* a preprocessor equals preprocessing by hand and calling any classifier  *)
(* built on the same backbone with preprocessor=None.                      *)
C5_AnyPlainTwin ==
    /\ \A i \in DOMAIN classifiers :
          classifiers[i].include_preprocessing <=> (classifiers[i].args.preprocessor # None)
    /\ (last.op = "predict" /\ last.x.kind = "raw"
            /\ classifiers[last.model].preprocessor # None) =>
          \A j \in PlainTwins(last.model) :
              last.out = Call(classifiers[j],
                              Preprocess(classifiers[last.model].preprocessor, last.x))

(* C5, amended: the same, for the classifiers built with preprocessor=None *)
(* on the same backbone whose logits layer holds the same weights.         *)
C5_TwinWithSameHead ==
    /\ \A i \in DOMAIN classifiers :
          classifiers[i].include_preprocessing <=> (classifiers[i].args.preprocessor # None)
    /\ (last.op = "predict" /\ last.x.kind = "raw"
            /\ classifiers[last.model].preprocessor # None) =>
          /\ last.out.kind = "tensor"
          /\ \A j \in PlainTwins(last.model) :
                classifiers[j].kernel = classifiers[last.model].kernel =>
                    last.out = Call(classifiers[j],
                                    Preprocess(classifiers[last.model].preprocessor,
                                               last.x))

C5_Witness ==
    /\ last.op = "predict"
    /\ last.x.kind = "raw"
    /\ classifiers[last.model].preprocessor # None
    /\ last.out.kind = "tensor"
    /\ \E j \in PlainTwins(last.model) :
          classifiers[j].kernel = classifiers[last.model].kernel

(* C4: a classifier is compiled from construction on, with the default     *)
(* loss (sparse categorical cross-entropy from logits), optimizer (Adam,   *)
(* 5e-5) and accuracy metric as long as the caller has not called          *)
(* compile(); fit on such a classifier, given data of the kind it takes    *)
(* and labels below num_classes, does not raise; a compile() by the caller *)
(* leaves the caller's settings in place of the defaults.                  *)
C4_DefaultCompiled ==
    /\ \A i \in DOMAIN classifiers :
          LET c == classifiers[i].compiled
          IN  /\ c.is_compiled
              /\ ~classifiers[i].user_compiled =>
                    /\ c.loss = "SparseCategoricalCrossentropy"
                    /\ c.from_logits
                    /\ c.optimizer = "Adam"
                    /\ c.learning_rate = 5
                    /\ c.metrics = "SparseCategoricalAccuracy"
    /\ (last.op = "fit" /\ ~classifiers[last.model].user_compiled
            /\ TakesInput(classifiers[last.model], last.x.data)
            /\ last.x.y < classifiers[last.model].num_classes) =>
          last.out = Ok
    /\ last.op = "compile" =>
          /\ classifiers[last.model].user_compiled
          /\ classifiers[last.model].compiled.loss = last.x.loss
          /\ classifiers[last.model].compiled.jit_compile = last.x.jit_compile
          /\ classifiers[last.model].compiled.optimizer # "Adam"

C4_Witness ==
    /\ last.op = "fit"
    /\ last.out = Ok
    /\ last.x.data.kind = "raw"
    /\ ~classifiers[last.model].user_compiled
    /\ classifiers[last.model].preprocessor # None

(* C7: whatever has been done to a classifier (compile, fit, predict,      *)
(* get_config), its num_classes and dropout, the values get_config()       *)
(* reports, the units of the logits layer, the shape of its kernel and the *)
(* rate of the dropout layer all equal the constructor's arguments.        *)
C7_ConfigImmutable ==
    /\ \A i \in DOMAIN classifiers :
          LET m == classifiers[i]
              c == get_config(m)
          IN  /\ m.num_classes = m.args.num_classes
              /\ m.dropout = m.args.dropout
              /\ "num_classes" \in DOMAIN c /\ c["num_classes"] = m.args.num_classes
              /\ "dropout" \in DOMAIN c /\ c["dropout"] = m.args.dropout
              /\ m.layers[LayerIndex(m.layers, "dense")].units = m.args.num_classes
              /\ m.kernel.shape[2] = m.args.num_classes
              /\ m.layers[LayerIndex(m.layers, "dropout")].rate = m.args.dropout
    /\ last.op = "get_config" =>
          /\ last.out["num_classes"] = classifiers[last.model].args.num_classes
          /\ last.out["dropout"] = classifiers[last.model].args.dropout

C7_Witness ==
    /\ last.op = "get_config"
    /\ classifiers[last.model].user_compiled
    /\ classifiers[last.model].kernel.value = 2
    /\ backbones[classifiers[last.model].backbone].weights = 2
    /\ classifiers[last.model].args.num_classes = 1
    /\ classifiers[last.model].args.dropout = 9

(* C2: get_config() keeps every key and value of the base task config and  *)
(* adds num_classes and dropout; a classifier reconstructed from that      *)
(* config has the original's num_classes and dropout (and preprocessor and *)
(* backbone architecture), and its own get_config() reports the same       *)
(* num_classes and dropout again.                                          *)
C2_ConfigRoundTrip ==
    \A i \in DOMAIN classifiers :
        LET m == classifiers[i]
            c == get_config(m)
        IN  /\ \A k \in DOMAIN BaseConfig(m) : k \in DOMAIN c /\ c[k] = BaseConfig(m)[k]
            /\ DOMAIN c = DOMAIN BaseConfig(m) \cup {"num_classes", "dropout"}
            /\ {"num_classes", "dropout"} \cap DOMAIN BaseConfig(m) = {}
            /\ c["num_classes"] = m.num_classes
            /\ c["dropout"] = m.dropout
            /\ m.origin # 0 =>
                  LET o == classifiers[m.origin]
                  IN  /\ m.num_classes = o.num_classes
                      /\ m.dropout = o.dropout
                      /\ m.preprocessor = o.preprocessor
                      /\ backbones[m.backbone].config = backbones[o.backbone].config
                      /\ c["num_classes"] = get_config(o)["num_classes"]
                      /\ c["dropout"] = get_config(o)["dropout"]

C2_Witness ==
    \E i \in DOMAIN classifiers :
        /\ classifiers[i].origin # 0
        /\ classifiers[i].num_classes = 1
        /\ classifiers[i].dropout = 9
        /\ classifiers[i].preprocessor # None
        /\ classifiers[i].kernel.value # classifiers[classifiers[i].origin].kernel.value

(* C6: for both save formats, load_model on a saved classifier succeeds,   *)
(* resolving the registered class, and the loaded model's predictions on   *)
(* the fixed batch equal those the original made before it was saved.      *)
C6_SaveLoadRoundTrip ==
    last.op = "load" =>
        /\ last.out = Ok
        /\ saved[last.x].format \in SaveFormats
        /\ saved[last.x].class_name = RegisteredName
        /\ LET m == classifiers[last.model]
           IN  /\ saved[last.x].model_output.kind = "tensor"
               /\ PredictOut(m, FixedInput(m)) = saved[last.x].model_output

C6_Witness ==
    /\ last.op = "load"
    /\ last.out = Ok
    /\ saved[last.x].format = "keras_v3"
    /\ saved[last.x].kernel.value = 2
    /\ saved[last.x].backbone_weights = 2
    /\ classifiers[last.model].num_classes = 1
    /\ classifiers[last.model].preprocessor # None

(* The module-level tables with every nested dictionary by value.          *)
OriginalBackbonePresets == Deref(InitialHeap, InitialBackbonePresets)
OriginalClassifierPresets == Deref(InitialHeap, InitialClassifierPresets)
OriginalUnion == Update(OriginalBackbonePresets, OriginalClassifierPresets)

(* C3: whatever callers did to the tables earlier accesses returned, the   *)
(* module-level backbone_presets and classifier_presets are unchanged,     *)
(* nested values included; the next access returns a table equal to the    *)
(* original union; that table shares no nested dictionary with the         *)
(* module-level tables or with any table returned before; and a returned   *)
(* table nobody has touched still equals the original union.               *)
C3_PresetsReadOnly ==
    /\ backbone_presets = InitialBackbonePresets
    /\ classifier_presets = InitialClassifierPresets
    /\ Deref(heap, backbone_presets) = OriginalBackbonePresets
    /\ Deref(heap, classifier_presets) = OriginalClassifierPresets
    /\ Deref(presets[2], presets[1]) = OriginalUnion
    /\ Addresses(presets[1]) \cap DOMAIN heap = {}
    /\ \A t \in DOMAIN tables :
          /\ Addresses(tables[t].dict)
                 \cap (Addresses(backbone_presets) \cup Addresses(classifier_presets)) = {}
          /\ \A u \in DOMAIN tables \ {t} :
                 Addresses(tables[t].dict) \cap Addresses(tables[u].dict) = {}
          /\ ~tables[t].touched => Deref(heap, tables[t].dict) = OriginalUnion

C3_Witness ==
    /\ Len(tables) = 2
    /\ tables[1].touched
    /\ "bert_base_en_uncased" \notin DOMAIN tables[1].dict
    /\ "custom" \in DOMAIN tables[1].dict
    /\ "bert_tiny_en_uncased_sst2" \in DOMAIN tables[1].dict
    /\ heap[tables[1].dict["bert_tiny_en_uncased_sst2"]].weights_hash = 1
    /\ ~tables[2].touched

====
